---------------------------- MODULE Spec2Model ----------------------------
(***************************************************************************)
(* A model of py-simpledatastore: the store directory (the ID file _ID.dat *)
(* and the content files {id}_{hash}.dat), the file helpers, the ID file   *)
(* class and the SimpleDataStore operations, check_integrity in            *)
(* particular.                                                             *)
(*                                                                         *)
(* Text is a sequence of one-character strings.  A file name and a file's  *)
(* content are both text; the directory maps the names of its regular      *)
(* files to their contents.                                                *)
(***************************************************************************)
EXTENDS Integers, Sequences, FiniteSets, TLC

\* ------------------------------------------------------------------ bounds
\* Most content files in the directory at once.
MaxFiles == 3
\* Most lines in the ID file at once.
MaxLedger == 2
\* Most characters in a content file (guards append_storage_data).
MaxText == 4
\* Most lines in the ID file when the IDFile is run on its own.
MaxIDLines == 3
\* Largest id the file name codec is run on.
MaxCodecID == 12
\* Most characters of a hash the file name codec is run on.
MaxHashLen == 2

\* ------------------------------------------------------------ text helpers
NL == "\n"

Digits == <<"0", "1", "2", "3", "4", "5", "6", "7", "8", "9">>

RECURSIVE Concat(_)
\* ("").join(seqs): the texts of seqs one after the other.
Concat(seqs) ==
    IF seqs = <<>> THEN <<>> ELSE Head(seqs) \o Concat(Tail(seqs))

\* The position of the first c in text, 0 when there is none.
IndexOf(text, c) ==
    IF \E i \in 1..Len(text) : text[i] = c
    THEN CHOOSE i \in 1..Len(text) :
            text[i] = c /\ \A j \in 1..(i - 1) : text[j] # c
    ELSE 0

\* The position of the last c in text, 0 when there is none.
LastIndexOf(text, c) ==
    IF \E i \in 1..Len(text) : text[i] = c
    THEN CHOOSE i \in 1..Len(text) :
            text[i] = c /\ \A j \in (i + 1)..Len(text) : text[j] # c
    ELSE 0

RECURSIVE Split(_, _)
\* str.split(sep): the pieces of text between the separators.
Split(text, sep) ==
    LET i == IndexOf(text, sep)
    IN  IF i = 0 THEN <<text>>
        ELSE <<SubSeq(text, 1, i - 1)>> \o Split(SubSeq(text, i + 1, Len(text)), sep)

\* Whether text starts with prefix.
StartsWith(text, prefix) ==
    /\ Len(prefix) <= Len(text)
    /\ SubSeq(text, 1, Len(prefix)) = prefix

\* The elements of a sequence, as a set.
Range(s) == {s[i] : i \in 1..Len(s)}

\* list.count(x)
Count(s, x) == Cardinality({i \in 1..Len(s) : s[i] = x})

\* list.remove(x): s without its first x.
RemoveFirst(s, x) ==
    LET i == IndexOf(s, x)
    IN  IF i = 0 THEN s ELSE SubSeq(s, 1, i - 1) \o SubSeq(s, i + 1, Len(s))

\* The sequences that list each element of the finite set S once.
Orderings(S) ==
    {s \in [1..Cardinality(S) -> S] : \A i, j \in 1..Cardinality(S) : s[i] = s[j] => i = j}

\* --------------------------------------------------------- str() and int()
DigitValue(c) == (CHOOSE i \in 1..10 : Digits[i] = c) - 1

IsDigits(text) == text # <<>> /\ \A i \in 1..Len(text) : text[i] \in Range(Digits)

RECURSIVE int(_)
\* int(text) of a decimal digit string (leading zeros are accepted).
int(text) ==
    IF text = <<>> THEN 0
    ELSE 10 * int(SubSeq(text, 1, Len(text) - 1)) + DigitValue(text[Len(text)])

RECURSIVE str(_)
\* str(n) of an integer n >= 0: its decimal digits, no leading zeros.
str(n) ==
    IF n < 10 THEN <<Digits[n + 1]>>
    ELSE str(n \div 10) \o <<Digits[(n % 10) + 1]>>

\* ------------------------------------------------- _filehelper: the files
\* A directory d maps the name of each regular file in it to the file's text.

\* What write_file and append_file_lines write for contentLines: each line
\* followed by a newline character.
WrittenText(contentLines) ==
    Concat([i \in 1..Len(contentLines) |-> contentLines[i] \o <<NL>>])

RECURSIVE TextLines(_)
\* What the readline loop of read_file_lines collects from a file's text: the
\* pieces between the newline characters, and a last piece without one.
TextLines(text) ==
    IF text = <<>> THEN <<>>
    ELSE LET i == IndexOf(text, NL)
         IN  IF i = 0 THEN <<text>>
             ELSE <<SubSeq(text, 1, i - 1)>> \o TextLines(SubSeq(text, i + 1, Len(text)))

\* os.scandir: the regular files of the directory (in no particular order).
list_dir_files(d) == DOMAIN d

\* No directory exists at the path: told apart from an empty directory by one
\* entry without a name, which no file has.
NoDirectory == (<<>> :> <<>>)

\* mkdir: creates the directory, empty, unless the path exists.
mkdir(path) == IF path = NoDirectory THEN <<>> ELSE path

\* del_path: the directory and what it holds are removed.
del_path(path) == NoDirectory

\* Mutant of create_file: the file is opened for writing whether it exists or
\* not, which empties it.
create_file_truncates(d, fname) ==
    [n \in DOMAIN d \cup {fname} |-> IF n = fname THEN <<>> ELSE d[n]]

\* Creates an empty file unless one of that name exists.
create_file(d, fname) ==
    IF fname \in DOMAIN d THEN d ELSE d @@ (fname :> <<>>)

del_file(d, path) ==
    IF path \in DOMAIN d THEN [n \in DOMAIN d \ {path} |-> d[n]] ELSE d

\* os.rename (POSIX): an existing newName is replaced.
rename_file(d, oldName, newName) ==
    IF oldName \in DOMAIN d
    THEN [n \in (DOMAIN d \ {oldName}) \cup {newName} |->
            IF n = newName THEN d[oldName] ELSE d[n]]
    ELSE d

write_file(d, filePath, contentLines) ==
    IF filePath \in DOMAIN d
    THEN [d EXCEPT ![filePath] = WrittenText(contentLines)]
    ELSE d

append_file_lines(d, filePath, contentLines) ==
    IF filePath \in DOMAIN d
    THEN [d EXCEPT ![filePath] = @ \o WrittenText(contentLines)]
    ELSE d

\* A file written by hand: name holds text afterwards, created or overwritten.
write_file_text(d, name, text) ==
    [n \in DOMAIN d \cup {name} |-> IF n = name THEN text ELSE d[n]]

read_file_lines(d, filePath) ==
    IF filePath \in DOMAIN d THEN TextLines(d[filePath]) ELSE <<>>

\* The files find_file may return for regString (a digit string here, so the
\* regular expression matches a name exactly when the name starts with it):
\* the first match in scan order, which is any of the matches.  The empty set
\* stands for the result None.
find_file(d, regString) ==
    {n \in list_dir_files(d) : StartsWith(n, regString)}

\* ------------------------------------------------ _filehelper: file names
DatSuffix == <<".", "d", "a", "t">>

\* Mutant of Stem: the name is cut at its first dot.
Stem_at_first_dot(name) ==
    LET i == IndexOf(name, ".")
    IN  IF 1 < i THEN SubSeq(name, 1, i - 1) ELSE name

\* pathlib's stem: the name without its last suffix.
Stem(name) ==
    LET i == LastIndexOf(name, ".")
    IN  IF 1 < i /\ i < Len(name) THEN SubSeq(name, 1, i - 1) ELSE name

\* decode_filename returns for these names; int() or the index [1] raises
\* for the others.
Decodable(name) ==
    LET parts == Split(Stem(name), "_")
    IN  Len(parts) >= 2 /\ IsDigits(parts[1])

decode_filename(name) ==
    LET parts == Split(Stem(name), "_")
    IN  [filepath |-> name, ID |-> int(parts[1]), contentHash |-> parts[2]]

encode_filename(id, contentHash) ==
    [filepath |-> str(id) \o <<"_">> \o contentHash \o DatSuffix,
     ID |-> id, contentHash |-> contentHash]

\* ------------------------------------------------------ _id_file: IDFile
IDFileName == <<"_", "I", "D", ".", "d", "a", "t">>

read_IDs(d) ==
    LET lines == read_file_lines(d, IDFileName)
    IN  [i \in 1..Len(lines) |-> int(lines[i])]

\* Mutant of add_ID_raises: add_ID does not look at the ids present.
add_ID_raises_never(d, id) == FALSE

\* add_ID raises KeyError exactly when this holds.
add_ID_raises(d, id) == id \in Range(read_IDs(d))

\* Mutant of add_ID: the id is appended without the look at the ids present.
add_ID_appends_always(d, id) == append_file_lines(d, IDFileName, <<str(id)>>)

\* add_ID, lines 51-57: on KeyError the file is as it was.
add_ID(d, id) ==
    IF add_ID_raises(d, id) THEN d
    ELSE append_file_lines(d, IDFileName, <<str(id)>>)

\* remove_ID raises KeyError exactly when this holds.
remove_ID_raises(d, id) == id \notin Range(read_IDs(d))

remove_ID(d, id) ==
    IF remove_ID_raises(d, id) THEN d
    ELSE LET ids == RemoveFirst(read_IDs(d), id)
         IN  write_file(d, IDFileName, [i \in 1..Len(ids) |-> str(ids[i])])

\* Mutant of purge_IDs: the ID file is not deleted first, so it keeps its lines.
purge_IDs_keeps_lines(d) == create_file(d, IDFileName)

purge_IDs(d) == create_file(del_file(d, IDFileName), IDFileName)

RECURSIVE add_IDs(_, _)
\* for id in ids: add_ID(id), the loop ending at the first add_ID that raises.
add_IDs(d, ids) ==
    IF ids = <<>> \/ add_ID_raises(d, Head(ids)) THEN d
    ELSE add_IDs(add_ID(d, Head(ids)), Tail(ids))

\* Whether an add_ID of that loop raises KeyError.
add_IDs_raises(d, ids) ==
    \E i \in 1..Len(ids) :
        \/ ids[i] \in Range(read_IDs(d))
        \/ \E j \in 1..(i - 1) : ids[j] = ids[i]

\* Mutant of IDFile_survivors: an id listed more than once is kept, once.
IDFile_survivors_keeps_one(d) == Range(read_IDs(d))

\* The ids IDFile.check_integrity keeps: those listed exactly once.
IDFile_survivors(d) ==
    {id \in Range(read_IDs(d)) : Count(read_IDs(d), id) = 1}

\* IDFile.check_integrity: the directories it may leave, one for each order in
\* which the set of survivors is iterated.
IDFile_check_integrity(d) ==
    {add_IDs(purge_IDs(d), order) : order \in Orderings(IDFile_survivors(d))}

\* ------------------------------------------- simpledatastore: the helpers
\* The digest's character for a character of the content.
HexOf(c) == IF c = NL THEN "f" ELSE c

\* calc_hash: the MD5 digest of the lines joined with no separator.  The digest
\* is taken to be free of collisions: it is the joined text spelled in the
\* digest's alphabet, after a leading "h" (a digest is never the empty string).
calc_hash(content) ==
    LET contentStr == Concat(content)
    IN  <<"h">> \o [i \in 1..Len(contentStr) |-> HexOf(contentStr[i])]

\* The files the scans decode: all but those whose name starts with "_".
StoreFiles(d) == {fPath \in list_dir_files(d) : fPath[1] # "_"}

\* The ids decoded from the scanned files, as a set.
StoreFileIDs(d) == {decode_filename(fPath).ID : fPath \in StoreFiles(d)}

\* storeFileIDs.count(id) of the scans.
StoreFileCount(d, id) ==
    Cardinality({fPath \in StoreFiles(d) : decode_filename(fPath).ID = id})

\* Mutant of remove_file_by_id: the membership test is inverted.
remove_file_by_id_inverted(d, idList) ==
    [n \in {m \in DOMAIN d : m[1] = "_" \/ decode_filename(m).ID \in idList} |-> d[n]]

\* __remove_file_by_id: every scanned file whose id is in idList is deleted.
remove_file_by_id(d, idList) ==
    [n \in {m \in DOMAIN d : m[1] = "_" \/ decode_filename(m).ID \notin idList} |-> d[n]]

\* ------------------------------------------- simpledatastore: list_IDs
\* Mutant of list_IDs_matches: the comparison is inverted.
list_IDs_matches_inverted(d) == ~(StoreFileIDs(d) = Range(read_IDs(d)))

\* list_IDs returns the list of the ID file when this holds, None otherwise.
list_IDs_matches(d) == StoreFileIDs(d) = Range(read_IDs(d))

list_IDs(d) ==
    IF list_IDs_matches(d)
    THEN [status |-> "ok", ids |-> read_IDs(d)]
    ELSE [status |-> "None", ids |-> <<>>]

\* ------------------------------------- simpledatastore: check_integrity
\* The condition of line 108-109 under which the files whose id the ID file
\* does not list are deleted.
mismatch_condition(storeFileIDs, idFileIDs) ==
    \/ ~(Cardinality(storeFileIDs) = Len(idFileIDs))
    \/ storeFileIDs = Range(idFileIDs)

\* Mutant of remove_doubles_and_unlisted: the files of a duplicated id are left
\* in place.
remove_unlisted_only(d) ==
    LET idFileIDs == read_IDs(d)
        storeFileIDs == StoreFileIDs(d)
        idToDelete ==
            IF mismatch_condition(storeFileIDs, idFileIDs)
            THEN {id \in storeFileIDs : id \notin Range(idFileIDs)}
            ELSE {}
    IN  remove_file_by_id(d, idToDelete)

\* Mutant of remove_doubles_and_unlisted: of the files of a duplicated id only
\* the extras are deleted, one is kept.
remove_extras_and_unlisted(d) ==
    LET idFileIDs == read_IDs(d)
        doubles == {id \in StoreFileIDs(d) : StoreFileCount(d, id) > 1}
        kept == {CHOOSE m \in StoreFiles(d) : decode_filename(m).ID = id : id \in doubles}
        d2 == [n \in {m \in DOMAIN d : m[1] = "_" \/ m \in kept
                                        \/ decode_filename(m).ID \notin doubles} |-> d[n]]
        storeFileIDs == StoreFileIDs(d)
        idToDelete ==
            IF mismatch_condition(storeFileIDs, idFileIDs)
            THEN {id \in storeFileIDs : id \notin Range(idFileIDs)}
            ELSE {}
    IN  remove_file_by_id(d2, idToDelete)

\* Lines 88-113: the duplicated ids' files and the unlisted ids' files go.
\* With doubles the list of store ids becomes a set without the doubles;
\* without doubles it holds each id once already.
remove_doubles_and_unlisted(d) ==
    LET idFileIDs == read_IDs(d)
        doubles == {id \in StoreFileIDs(d) : StoreFileCount(d, id) > 1}
        d2 == IF doubles # {} THEN remove_file_by_id(d, doubles) ELSE d
        storeFileIDs == StoreFileIDs(d) \ doubles
        idToDelete ==
            IF mismatch_condition(storeFileIDs, idFileIDs)
            THEN {id \in storeFileIDs : id \notin Range(idFileIDs)}
            ELSE {}
    IN  remove_file_by_id(d2, idToDelete)

\* Mutant of hash_matches: a file without content is not checked.
hash_matches_unless_empty(d, file) ==
    \/ read_file_lines(d, file) = <<>>
    \/ calc_hash(read_file_lines(d, file)) = decode_filename(file).contentHash

\* Whether the hash recomputed from the file's content is the one in its name.
hash_matches(d, file) ==
    calc_hash(read_file_lines(d, file)) = decode_filename(file).contentHash

\* Mutant of remove_hash_mismatches: a file whose content does not match its
\* hash is renamed to the hash of its content instead of being deleted.
remove_hash_mismatches_repairs(d) ==
    LET repaired(m) ==
            IF m[1] = "_" \/ hash_matches(d, m) THEN m
            ELSE encode_filename(decode_filename(m).ID,
                                 calc_hash(read_file_lines(d, m))).filepath
    IN  [n \in {repaired(m) : m \in DOMAIN d} |->
            d[CHOOSE m \in DOMAIN d : repaired(m) = n]]

\* Mutant of remove_hash_mismatches: the loop ends after the first file it
\* deletes.
remove_one_hash_mismatch(d) ==
    LET bad == {m \in StoreFiles(d) : ~hash_matches(d, m)}
    IN  IF bad = {} THEN d ELSE del_file(d, CHOOSE m \in bad : TRUE)

\* Lines 116-129: the files whose content does not match their hash go.
remove_hash_mismatches(d) ==
    [n \in {m \in DOMAIN d : m[1] = "_" \/ hash_matches(d, m)} |-> d[n]]

\* Mutant of rebuild_IDs: the ids are added without the purge before.
rebuild_IDs_without_purge(d, scan) ==
    LET newIDs == [i \in 1..Len(scan) |-> decode_filename(scan[i]).ID]
    IN  [dir |-> add_IDs(d, newIDs),
         status |-> IF add_IDs_raises(d, newIDs) THEN "KeyError" ELSE "ok",
         lines |-> <<>>]

\* Lines 132-143: the ID file is purged and rebuilt from a scan of the files.
rebuild_IDs(d, scan) ==
    LET newIDs == [i \in 1..Len(scan) |-> decode_filename(scan[i]).ID]
    IN  [dir |-> add_IDs(purge_IDs(d), newIDs),
         status |-> IF add_IDs_raises(purge_IDs(d), newIDs) THEN "KeyError" ELSE "ok",
         lines |-> <<>>]

\* check_integrity: the outcomes it may have on directory d, one for each
\* order of the set iteration in the ID file's check and of the last scan.
check_integrity(d) ==
    UNION { LET d4 == remove_hash_mismatches(remove_doubles_and_unlisted(d1))
            IN  {rebuild_IDs(d4, scan) : scan \in Orderings(StoreFiles(d4))}
          : d1 \in IDFile_check_integrity(d) }

\* A loop of del_file calls cut short on its way from directory d to dEnd:
\* the directory is scanned in no particular order, so any of the files the
\* loop deletes may be gone and any may still be there.
del_file_stops(d, dEnd) ==
    {[n \in DOMAIN dEnd \cup kept |-> d[n]]
     : kept \in SUBSET (DOMAIN d \ DOMAIN dEnd)}

\* purge_IDs and the add_ID loop over ids that follows it, cut short: the ID
\* file is deleted and not yet created again (line 83), empty (line 84), or
\* holds the first ids of the loop.
IDFile_rebuild_stops(d, ids) ==
    {del_file(d, IDFileName)} \cup
    {add_IDs(purge_IDs(d), SubSeq(ids, 1, k)) : k \in 0..Len(ids)}

\* The directories check_integrity may leave when it is interrupted between
\* two of its writes: in the ID file's own check (line 74), in the removal of
\* the duplicated ids' files (line 97), of the unlisted ids' files (line 113),
\* of the files with a wrong hash (line 129), and in the final rebuild of the
\* ID file (lines 141-143).
check_integrity_stops(d) ==
    UNION {IDFile_rebuild_stops(d, order)
           : order \in Orderings(IDFile_survivors(d))}
    \cup
    UNION { LET doubles == {id \in StoreFileIDs(d1) : StoreFileCount(d1, id) > 1}
                d2 == IF doubles # {} THEN remove_file_by_id(d1, doubles) ELSE d1
                d3 == remove_doubles_and_unlisted(d1)
                d4 == remove_hash_mismatches(d3)
            IN  del_file_stops(d1, d2) \cup del_file_stops(d2, d3)
                \cup del_file_stops(d3, d4)
                \cup UNION {IDFile_rebuild_stops(d4,
                                [i \in 1..Len(scan) |-> decode_filename(scan[i]).ID])
                            : scan \in Orderings(StoreFiles(d4))}
          : d1 \in IDFile_check_integrity(d) }

\* ------------------------------- simpledatastore: the object operations
\* Mutant of add_storage_file_writes: the hash in the name is taken over the
\* lines with their newlines.
add_storage_file_writes_newline_hash(d, id, content, steps) ==
    LET fDescriptor == encode_filename(id, calc_hash(<<WrittenText(content)>>))
        d1 == add_ID(d, id)
        d2 == create_file(d1, fDescriptor.filepath)
        d3 == write_file(d2, fDescriptor.filepath, content)
    IN  CASE steps = 1 -> d1
          [] steps = 2 -> d2
          [] OTHER -> d3

\* Mutant of add_storage_file_writes: the file is created and written first,
\* the id added to the ID file last.
add_storage_file_writes_file_first(d, id, content, steps) ==
    LET fDescriptor == encode_filename(id, calc_hash(content))
        d1 == create_file(d, fDescriptor.filepath)
        d2 == write_file(d1, fDescriptor.filepath, content)
        d3 == add_ID(d2, id)
    IN  CASE steps = 1 -> d1
          [] steps = 2 -> d2
          [] OTHER -> d3

\* add_storage_file's writes, lines 163-174, cut after the first `steps` of
\* them: add_ID, create_file, write_file.
add_storage_file_writes(d, id, content, steps) ==
    LET fDescriptor == encode_filename(id, calc_hash(content))
        d1 == add_ID(d, id)
        d2 == create_file(d1, fDescriptor.filepath)
        d3 == write_file(d2, fDescriptor.filepath, content)
    IN  CASE steps = 1 -> d1
          [] steps = 2 -> d2
          [] OTHER -> d3

\* Each operation gives its possible outcomes on directory d: the directory
\* it leaves, how it ended ("ok" or the exception raised) and what it returned.
Outcome(d, status, lines) == [dir |-> d, status |-> status, lines |-> lines]

\* Mutant of add_storage_file: an id already listed gets a further file instead
\* of the ValueError.
add_storage_file_overwrites(d, id, content) ==
    LET ids == list_IDs(d)
        fDescriptor == encode_filename(id, calc_hash(content))
    IN  IF ids.status = "None" THEN {Outcome(d, "TypeError", <<>>)}
        ELSE IF id \in Range(ids.ids)
             THEN {Outcome(write_file(create_file(d, fDescriptor.filepath),
                                      fDescriptor.filepath, content), "ok", <<>>)}
        ELSE IF add_ID_raises(d, id) THEN {Outcome(d, "KeyError", <<>>)}
        ELSE {Outcome(add_storage_file_writes(d, id, content, 3), "ok", <<>>)}

\* add_storage_file, lines 156-174.
add_storage_file(d, id, content) ==
    LET ids == list_IDs(d)
    IN  IF ids.status = "None" THEN {Outcome(d, "TypeError", <<>>)}
        ELSE IF id \in Range(ids.ids) THEN {Outcome(d, "ValueError", <<>>)}
        ELSE IF add_ID_raises(d, id) THEN {Outcome(d, "KeyError", <<>>)}
        ELSE {Outcome(add_storage_file_writes(d, id, content, 3), "ok", <<>>)}

\* delete_storage_file's writes, lines 189-192, cut after the first `steps` of
\* them: remove_ID, del_file of the file found.
delete_storage_file_writes(d, id, steps) ==
    LET d1 == remove_ID(d, id)
    IN  IF steps = 1 THEN {d1}
        ELSE {del_file(d1, storeFile) : storeFile \in find_file(d1, str(id))}

\* Mutant of delete_storage_file: an id that is not listed is passed over in
\* silence.
delete_storage_file_silent(d, id) ==
    LET ids == list_IDs(d)
    IN  IF ids.status = "None" THEN {Outcome(d, "TypeError", <<>>)}
        ELSE IF id \notin Range(ids.ids) THEN {Outcome(d, "ok", <<>>)}
        ELSE LET d1 == remove_ID(d, id)
                 found == find_file(d1, str(id))
             IN  IF found = {} THEN {Outcome(d1, "AttributeError", <<>>)}
                 ELSE {Outcome(del_file(d1, storeFile), "ok", <<>>) : storeFile \in found}

\* delete_storage_file, lines 183-192.
delete_storage_file(d, id) ==
    LET ids == list_IDs(d)
    IN  IF ids.status = "None" THEN {Outcome(d, "TypeError", <<>>)}
        ELSE IF id \notin Range(ids.ids) THEN {Outcome(d, "ValueError", <<>>)}
        ELSE LET d1 == remove_ID(d, id)
                 found == find_file(d1, str(id))
             IN  IF found = {} THEN {Outcome(d1, "AttributeError", <<>>)}
                 ELSE {Outcome(del_file(d1, storeFile), "ok", <<>>) : storeFile \in found}

read_storage_data(d, id) ==
    LET found == find_file(d, str(id))
    IN  IF found = {} THEN {Outcome(d, "AttributeError", <<>>)}
        ELSE {Outcome(d, "ok", read_file_lines(d, storeFile)) : storeFile \in found}

\* Mutant of write_storage_data: the file keeps its old name.
write_storage_data_keeps_name(d, id, content) ==
    LET found == find_file(d, str(id))
    IN  IF found = {} THEN {Outcome(d, "AttributeError", <<>>)}
        ELSE {Outcome(write_file(d, storeFile, content), "ok", <<>>)
              : storeFile \in found}

\* write_storage_data, lines 221-231.
write_storage_data(d, id, content) ==
    LET found == find_file(d, str(id))
        newFDescriptor == encode_filename(id, calc_hash(content))
    IN  IF found = {} THEN {Outcome(d, "AttributeError", <<>>)}
        ELSE {Outcome(rename_file(write_file(d, storeFile, content),
                                  storeFile, newFDescriptor.filepath), "ok", <<>>)
              : storeFile \in found}

\* Mutant of append_storage_data: the new name's hash is taken over the
\* appended lines alone.
append_storage_data_hashes_appended(d, id, content) ==
    LET found == find_file(d, str(id))
        newFDescriptor == encode_filename(id, calc_hash(content))
    IN  IF found = {} THEN {Outcome(d, "AttributeError", <<>>)}
        ELSE {Outcome(rename_file(append_file_lines(d, storeFile, content),
                                  storeFile, newFDescriptor.filepath), "ok", <<>>)
              : storeFile \in found}

\* append_storage_data, lines 241-253.
append_storage_data(d, id, content) ==
    LET found == find_file(d, str(id))
    IN  IF found = {} THEN {Outcome(d, "AttributeError", <<>>)}
        ELSE {LET d1 == append_file_lines(d, storeFile, content)
                  newContent == read_file_lines(d1, storeFile)
                  newFDescriptor == encode_filename(id, calc_hash(newContent))
              IN  Outcome(rename_file(d1, storeFile, newFDescriptor.filepath), "ok", <<>>)
              : storeFile \in found}

\* write_storage_data's writes, lines 229-231, cut after the first `steps` of
\* them on the file found: write_file, rename_file.
write_storage_data_writes(d, id, content, steps) ==
    LET newFDescriptor == encode_filename(id, calc_hash(content))
    IN  {LET d1 == write_file(d, storeFile, content)
         IN  IF steps = 1 THEN d1
             ELSE rename_file(d1, storeFile, newFDescriptor.filepath)
         : storeFile \in find_file(d, str(id))}

\* append_storage_data's writes, lines 249-253, cut after the first `steps` of
\* them on the file found: append_file_lines, rename_file.
append_storage_data_writes(d, id, content, steps) ==
    {LET d1 == append_file_lines(d, storeFile, content)
         newFDescriptor ==
             encode_filename(id, calc_hash(read_file_lines(d1, storeFile)))
     IN  IF steps = 1 THEN d1
         ELSE rename_file(d1, storeFile, newFDescriptor.filepath)
     : storeFile \in find_file(d, str(id))}

\* -------------------------------------------------------------- the inputs
\* The ids the operations are called with: 1 is a prefix of 12.
IDS == {1, 12}

La == <<"a">>
Lb == <<"b">>

\* The contents the operations are called with: lists of lines, and one whose
\* line holds a line break.
Contents == {<< La >>, << Lb >>, << <<"a", NL>> >>}

\* What is written into the directory by hand: content files whose names decode
\* (one with a leading zero in its id), with texts that match their hash or not
\* (one without a final newline), and lines of the ID file.
TamperNames ==
    {encode_filename(1, calc_hash(<< La >>)).filepath,
     encode_filename(1, calc_hash(<< Lb >>)).filepath,
     encode_filename(12, calc_hash(<< La >>)).filepath,
     <<"0">> \o encode_filename(1, calc_hash(<< La >>)).filepath}

TamperTexts == {<<>>, <<"a", NL>>, <<"a">>}

\* ---------------------------------------------------------------- the state
VARIABLES
    storeDir,   \* the directory at __storePath: file name -> text
    pre,        \* the directory when the last call started
    last        \* the last call: its name, arguments and outcome

vars == <<storeDir, pre, last>>

Call(op, id, content, status, ids, lines) ==
    [op |-> op, id |-> id, content |-> content, status |-> status,
     ids |-> ids, lines |-> lines]

\* No call is under way: the caller has taken the last call's outcome.
Idle == Call("idle", 0, <<>>, "ok", <<>>, <<>>)

WithinBounds(d) ==
    /\ Cardinality(StoreFiles(d)) <= MaxFiles
    /\ Len(read_file_lines(d, IDFileName)) <= MaxLedger
    /\ \A n \in StoreFiles(d) : Len(d[n]) <= MaxText

\* SimpleDataStore(path) on a fresh path: the directory holds an empty ID file.
Init ==
    /\ storeDir = (IDFileName :> <<>>)
    /\ pre = storeDir
    /\ last = Idle

\* ------------------------------------------------ writes made by hand
TamperWriteFile ==
    /\ last = Idle
    /\ \E name \in TamperNames, text \in TamperTexts :
           /\ WithinBounds(write_file_text(storeDir, name, text))
           /\ storeDir' = write_file_text(storeDir, name, text)
           /\ pre' = storeDir'
           /\ last' = Idle

TamperAppendID ==
    /\ last = Idle
    /\ \E id \in IDS :
           /\ WithinBounds(append_file_lines(storeDir, IDFileName, <<str(id)>>))
           /\ storeDir' = append_file_lines(storeDir, IDFileName, <<str(id)>>)
           /\ pre' = storeDir'
           /\ last' = Idle

\* ------------------------------------------------------- the operations
\* A call of an operation: the directory becomes the one of outcome o, and the
\* call is recorded with the directory it started in.
Returns(op, id, content, o, ids) ==
    /\ WithinBounds(o.dir)
    /\ storeDir' = o.dir
    /\ pre' = storeDir
    /\ last' = Call(op, id, content, o.status, ids, o.lines)

ListIDs ==
    /\ last = Idle
    /\ Returns("list_IDs", 0, <<>>,
               Outcome(storeDir, list_IDs(storeDir).status, <<>>),
               list_IDs(storeDir).ids)

CheckIntegrity ==
    /\ last = Idle
    /\ \E o \in check_integrity(storeDir) :
           Returns("check_integrity", 0, <<>>, o, <<>>)

AddStorageFile ==
    /\ last = Idle
    /\ \E id \in IDS, content \in Contents :
           \E o \in add_storage_file(storeDir, id, content) :
               Returns("add_storage_file", id, content, o, <<>>)

\* add_storage_file interrupted after its first or second write.
AddStorageFileInterrupted ==
    /\ last = Idle
    /\ \E id \in IDS, content \in Contents, steps \in {1, 2} :
           /\ \E o \in add_storage_file(storeDir, id, content) :
                   o.status = "ok" /\ WithinBounds(o.dir)
           /\ Returns("add_storage_file", id, content,
                      Outcome(add_storage_file_writes(storeDir, id, content, steps),
                              "interrupted", <<>>), <<>>)

\* delete_storage_file interrupted after its first write.
DeleteStorageFileInterrupted ==
    /\ last = Idle
    /\ \E id \in IDS :
           /\ list_IDs(storeDir).status = "ok"
           /\ id \in Range(list_IDs(storeDir).ids)
           /\ \E d \in delete_storage_file_writes(storeDir, id, 1) :
                  Returns("delete_storage_file", id, <<>>,
                          Outcome(d, "interrupted", <<>>), <<>>)

DeleteStorageFile ==
    /\ last = Idle
    /\ \E id \in IDS :
           \E o \in delete_storage_file(storeDir, id) :
               Returns("delete_storage_file", id, <<>>, o, <<>>)

ReadStorageData ==
    /\ last = Idle
    /\ \E id \in IDS :
           \E o \in read_storage_data(storeDir, id) :
               Returns("read_storage_data", id, <<>>, o, <<>>)

WriteStorageData ==
    /\ last = Idle
    /\ \E id \in IDS, content \in Contents :
           \E o \in write_storage_data(storeDir, id, content) :
               Returns("write_storage_data", id, content, o, <<>>)

AppendStorageData ==
    /\ last = Idle
    /\ \E id \in IDS, content \in Contents :
           \E o \in append_storage_data(storeDir, id, content) :
               Returns("append_storage_data", id, content, o, <<>>)

\* The caller takes the outcome of the last call; the next call may start.
Return ==
    /\ last # Idle
    /\ storeDir' = storeDir
    /\ pre' = storeDir
    /\ last' = Idle

Next ==
    \/ TamperWriteFile
    \/ TamperAppendID
    \/ ListIDs
    \/ CheckIntegrity
    \/ AddStorageFile
    \/ AddStorageFileInterrupted
    \/ DeleteStorageFile
    \/ ReadStorageData
    \/ Return

\* The store written by hand and through the operations that create and delete
\* files; the files that can exist are those the hand-made writes and
\* add_storage_file make.
Spec == Init /\ [][Next]_vars

\* The store reached through completed calls of its operations alone.
NextAPI ==
    \/ ListIDs
    \/ CheckIntegrity
    \/ AddStorageFile
    \/ DeleteStorageFile
    \/ ReadStorageData
    \/ WriteStorageData
    \/ AppendStorageData
    \/ Return

SpecAPI == Init /\ [][NextAPI]_vars

\* The store's calls, each completed or interrupted between two of its writes.
NextCrash ==
    \/ CheckIntegrity
    \/ AddStorageFile
    \/ AddStorageFileInterrupted
    \/ DeleteStorageFile
    \/ DeleteStorageFileInterrupted
    \/ Return

SpecCrash == Init /\ [][NextCrash]_vars

\* The store's calls completed, with contents whose lines hold no line break.
LineContents == {<< La >>, << Lb >>}

AddStorageFileLines ==
    /\ last = Idle
    /\ \E id \in IDS, content \in LineContents :
           \E o \in add_storage_file(storeDir, id, content) :
               Returns("add_storage_file", id, content, o, <<>>)

WriteStorageDataLines ==
    /\ last = Idle
    /\ \E id \in IDS, content \in LineContents :
           \E o \in write_storage_data(storeDir, id, content) :
               Returns("write_storage_data", id, content, o, <<>>)

AppendStorageDataLines ==
    /\ last = Idle
    /\ \E id \in IDS, content \in LineContents :
           \E o \in append_storage_data(storeDir, id, content) :
               Returns("append_storage_data", id, content, o, <<>>)

NextLines ==
    \/ CheckIntegrity
    \/ AddStorageFileLines
    \/ DeleteStorageFile
    \/ WriteStorageDataLines
    \/ AppendStorageDataLines
    \/ Return

SpecLines == Init /\ [][NextLines]_vars

\* ------------------------------------------- a call cut short, then repaired
\* check_integrity interrupted between two of its writes.
CheckIntegrityInterrupted ==
    /\ last = Idle
    /\ \E d \in check_integrity_stops(storeDir) :
           Returns("check_integrity", 0, <<>>, Outcome(d, "interrupted", <<>>), <<>>)

\* write_storage_data interrupted after write_file, before rename_file.
WriteStorageDataInterrupted ==
    /\ last = Idle
    /\ \E id \in IDS, content \in LineContents :
           \E d \in write_storage_data_writes(storeDir, id, content, 1) :
               Returns("write_storage_data", id, content,
                       Outcome(d, "interrupted", <<>>), <<>>)

\* append_storage_data interrupted after append_file_lines, before rename_file.
AppendStorageDataInterrupted ==
    /\ last = Idle
    /\ \E id \in IDS, content \in LineContents :
           \E d \in append_storage_data_writes(storeDir, id, content, 1) :
               Returns("append_storage_data", id, content,
                       Outcome(d, "interrupted", <<>>), <<>>)

\* check_integrity run to completion as the next call after an interrupted
\* one.  The record keeps the interrupted call and the directory it started
\* in; its status becomes "reconciled", or the exception check_integrity
\* raised.
CheckIntegrityAfterInterrupt ==
    /\ last.status = "interrupted"
    /\ \E o \in check_integrity(storeDir) :
           /\ WithinBounds(o.dir)
           /\ storeDir' = o.dir
           /\ pre' = pre
           /\ last' = [last EXCEPT !.status =
                          IF o.status = "ok" THEN "reconciled" ELSE o.status]

\* Objects are added without line breaks in their content; a call of
\* check_integrity, write_storage_data or append_storage_data is cut short
\* and check_integrity is run afterwards.
NextRecover ==
    \/ AddStorageFileLines
    \/ CheckIntegrityInterrupted
    \/ WriteStorageDataInterrupted
    \/ AppendStorageDataInterrupted
    \/ CheckIntegrityAfterInterrupt
    \/ Return

SpecRecover == Init /\ [][NextRecover]_vars

\* The store's calls on contents without line breaks, each completed, and
\* add_storage_file and delete_storage_file also interrupted between two of
\* their writes; no file is written by hand.
NextCrashAPI ==
    \/ CheckIntegrity
    \/ AddStorageFileLines
    \/ AddStorageFileInterrupted
    \/ DeleteStorageFile
    \/ DeleteStorageFileInterrupted
    \/ WriteStorageDataLines
    \/ AppendStorageDataLines
    \/ Return

SpecCrashAPI == Init /\ [][NextCrashAPI]_vars

\* Content updates on directories with files written by hand: as many files as
\* there are ids, each written once, and objects added through the store.
TamperDataFile ==
    /\ last = Idle
    /\ Cardinality(StoreFiles(storeDir)) < Cardinality(IDS)
    /\ \E name \in TamperNames, text \in TamperTexts :
           /\ name \notin DOMAIN storeDir
           /\ WithinBounds(write_file_text(storeDir, name, text))
           /\ storeDir' = write_file_text(storeDir, name, text)
           /\ pre' = storeDir'
           /\ last' = Idle

NextData ==
    \/ TamperDataFile
    \/ AddStorageFile
    \/ ReadStorageData
    \/ WriteStorageData
    \/ AppendStorageData
    \/ Return

SpecData == Init /\ [][NextData]_vars

\* ------------------------------------------------------ opening a store
\* IDFile(storePath): the ID file is created unless it exists.
IDFile_init(d) == create_file(d, IDFileName)

\* SimpleDataStore(path).
SimpleDataStore_init(path) == IDFile_init(mkdir(path))

\* Nothing exists at the path before the first SimpleDataStore(path).
InitFresh ==
    /\ storeDir = NoDirectory
    /\ pre = storeDir
    /\ last = Idle

OpenStore ==
    /\ last = Idle
    /\ storeDir' = SimpleDataStore_init(storeDir)
    /\ pre' = storeDir
    /\ last' = Call("__init__", 0, <<>>, "ok", <<>>, <<>>)

DeleteStore ==
    /\ last = Idle
    /\ storeDir # NoDirectory
    /\ storeDir' = del_path(storeDir)
    /\ pre' = storeDir
    /\ last' = Call("delete_store", 0, <<>>, "ok", <<>>, <<>>)

\* Once the directory exists files are added to it, through the store and by
\* hand, and the store is opened again.
NextOpen ==
    \/ OpenStore
    \/ DeleteStore
    \/ (storeDir # NoDirectory /\ AddStorageFile)
    \/ (storeDir # NoDirectory /\ TamperWriteFile)
    \/ (storeDir # NoDirectory /\ TamperAppendID)
    \/ Return

SpecOpen == InitFresh /\ [][NextOpen]_vars

\* ------------------------------------------------- the file name codec
\* The ids and hashes the codec is run on: hashes are any texts, so with dots
\* and with underscores.
CodecIDs == 0..MaxCodecID

CodecChars == {"a", ".", "_"}

CodecHashes == UNION {[1..n -> CodecChars] : n \in 0..MaxHashLen}

\* encode_filename(path, id, contentHash), and the file created at the path it
\* gives.
EncodeFilename ==
    /\ last = Idle
    /\ \E id \in CodecIDs, contentHash \in CodecHashes :
           LET fDescriptor == encode_filename(id, contentHash)
           IN  /\ storeDir' = create_file(storeDir, fDescriptor.filepath)
               /\ pre' = storeDir
               /\ last' = Call("encode_filename", fDescriptor.ID,
                               <<fDescriptor.contentHash>>, "ok", <<>>,
                               <<fDescriptor.filepath>>)

\* decode_filename of the path encode_filename gave: the call is recorded with
\* the id and hash that were encoded, and returns the decoded id (in ids) and
\* the decoded path and hash (in lines).
DecodeFilename ==
    /\ last.op = "encode_filename"
    /\ LET filepath == last.lines[1]
       IN  /\ pre' = storeDir
           /\ storeDir' = storeDir
           /\ IF filepath \notin DOMAIN storeDir
              THEN last' = Call("decode_filename", last.id, last.content,
                                "ValueError", <<>>, <<>>)
              ELSE LET fileDescriptor == decode_filename(filepath)
                   IN  last' = Call("decode_filename", last.id, last.content, "ok",
                                    <<fileDescriptor.ID>>,
                                    <<fileDescriptor.filepath,
                                      fileDescriptor.contentHash>>)

\* decode_filename returns the class FilenameDescriptor itself, not an object
\* of it (line 37), and each call assigns the class's attributes (lines
\* 42-47).  What a descriptor returned by any of the calls reads as after
\* decode_filename was called on the files `decoded`, in that order: what the
\* last call assigned.
FilenameDescriptor_after(decoded) == decode_filename(decoded[Len(decoded)])

\* The caller keeps the descriptor of the first decode_filename and calls
\* decode_filename on another file; the record then also holds what the first
\* descriptor reads as now: its id (in ids) and its path and hash (in lines).
DecodeFilenameAgain ==
    /\ last.op = "decode_filename"
    /\ last.status = "ok"
    /\ \E id \in CodecIDs, contentHash \in CodecHashes :
           LET other == encode_filename(id, contentHash).filepath
               first == FilenameDescriptor_after(<<last.lines[1], other>>)
           IN  /\ other \notin DOMAIN storeDir
               /\ storeDir' = create_file(storeDir, other)
               /\ pre' = storeDir
               /\ last' = Call("decode_filename again", last.id, last.content, "ok",
                               last.ids \o <<first.ID>>,
                               last.lines \o <<first.filepath, first.contentHash>>)

\* The files are deleted again.
DeleteDecoded ==
    /\ last.op \in {"decode_filename", "decode_filename again"}
    /\ storeDir' = [n \in {IDFileName} |-> storeDir[n]]
    /\ pre' = storeDir'
    /\ last' = Idle

NextCodec ==
    \/ EncodeFilename
    \/ DecodeFilename
    \/ DecodeFilenameAgain
    \/ DeleteDecoded

SpecCodec == Init /\ [][NextCodec]_vars

\* ---------------------------------------------------- the IDFile on its own
\* The ids the IDFile's operations are called with.
LedgerIDS == {1, 2, 12}

\* A line with an id is appended to the ID file by hand: the file may then
\* list an id more than once.
TamperIDLine ==
    /\ last = Idle
    /\ Len(read_file_lines(storeDir, IDFileName)) < MaxIDLines
    /\ \E id \in LedgerIDS :
           /\ storeDir' = append_file_lines(storeDir, IDFileName, <<str(id)>>)
           /\ pre' = storeDir'
           /\ last' = Idle

\* A call of an operation of the IDFile that leaves directory d.
IDFileReturns(op, id, d, status) ==
    /\ Len(read_file_lines(d, IDFileName)) <= MaxIDLines
    /\ storeDir' = d
    /\ pre' = storeDir
    /\ last' = Call(op, id, <<>>, status, <<>>, <<>>)

AddID ==
    /\ last = Idle
    /\ \E id \in LedgerIDS :
           IDFileReturns("add_ID", id, add_ID(storeDir, id),
                         IF add_ID_raises(storeDir, id) THEN "KeyError" ELSE "ok")

RemoveID ==
    /\ last = Idle
    /\ \E id \in LedgerIDS :
           IDFileReturns("remove_ID", id, remove_ID(storeDir, id),
                         IF remove_ID_raises(storeDir, id) THEN "KeyError" ELSE "ok")

PurgeIDs ==
    /\ last = Idle
    /\ IDFileReturns("purge_IDs", 0, purge_IDs(storeDir), "ok")

IDFileCheckIntegrity ==
    /\ last = Idle
    /\ \E d \in IDFile_check_integrity(storeDir) :
           IDFileReturns("IDFile.check_integrity", 0, d, "ok")

NextLedger ==
    \/ TamperIDLine
    \/ AddID
    \/ RemoveID
    \/ PurgeIDs
    \/ IDFileCheckIntegrity
    \/ Return

SpecLedger == Init /\ [][NextLedger]_vars

\* The IDFile called through its methods alone, from the empty ID file.
NextLedgerAPI ==
    \/ AddID
    \/ RemoveID
    \/ PurgeIDs
    \/ IDFileCheckIntegrity
    \/ Return

SpecLedgerAPI == Init /\ [][NextLedgerAPI]_vars

\* ------------------------------------------------ the claims' vocabulary
\* The ids the ID file of d lists, as a set.
LedgerIDs(d) == Range(read_IDs(d))

\* The ids decoded from the content files of d: every file but the ID file.
ContentFileIDs(d) ==
    {int(Split(Stem(n), "_")[1]) : n \in DOMAIN d \ {IDFileName}}

\* The content files of d that carry id.
FilesOf(d, id) ==
    {n \in DOMAIN d \ {IDFileName} : int(Split(Stem(n), "_")[1]) = id}

\* The content files of d, names and contents.
ContentFiles(d) == [n \in DOMAIN d \ {IDFileName} |-> d[n]]

\* The hash embedded in the name of file n is the hash of its content.
HashVerified(d, n) ==
    Split(Stem(n), "_")[2] = calc_hash(TextLines(d[n]))

\* Object id is valid in d: listed once, carried by one file, hash verified.
ValidObject(d, id) ==
    /\ Count(read_IDs(d), id) = 1
    /\ Cardinality(FilesOf(d, id)) = 1
    /\ \A n \in FilesOf(d, id) : HashVerified(d, n)

\* The valid objects of `before` are in `after` as they were.
ValidObjectsKept(before, after) ==
    \A id \in LedgerIDs(before) :
        ValidObject(before, id) =>
            /\ id \in LedgerIDs(after)
            /\ \A n \in FilesOf(before, id) : n \in DOMAIN after /\ after[n] = before[n]

\* The last call was check_integrity.
Reconciled == last.op = "check_integrity"

\* ------------------------------------------------------------ the claims

\* C1: after check_integrity the ID file lists no id twice, the ids it lists
\* are the ids of the content files, no two content files carry one id, and
\* every content file's embedded hash is the hash of its content.
C1_ReconciledStoreInvariant ==
    Reconciled =>
        /\ last.status = "ok"
        /\ \A id \in LedgerIDs(storeDir) : Count(read_IDs(storeDir), id) = 1
        /\ LedgerIDs(storeDir) = ContentFileIDs(storeDir)
        /\ \A id \in ContentFileIDs(storeDir) : Cardinality(FilesOf(storeDir, id)) = 1
        /\ \A n \in DOMAIN ContentFiles(storeDir) : HashVerified(storeDir, n)

\* C1 witness: a run on a directory with an id on two files and a file with a
\* wrong hash, which changes the ids listed and leaves a file.
C1_Witness ==
    /\ Reconciled
    /\ LedgerIDs(pre) # LedgerIDs(storeDir)
    /\ \E id \in ContentFileIDs(pre) : Cardinality(FilesOf(pre, id)) > 1
    /\ \E n \in DOMAIN ContentFiles(pre) : ~HashVerified(pre, n)
    /\ ContentFiles(storeDir) # <<>>

\* C2: a second check_integrity right after the first leaves the ids of the
\* ID file and the content files (names and contents) as the first left them.
C2_ReconcileIdempotent ==
    Reconciled =>
        \A o \in check_integrity(storeDir) :
            /\ LedgerIDs(o.dir) = LedgerIDs(storeDir)
            /\ ContentFiles(o.dir) = ContentFiles(storeDir)

\* C2 witness: a first run that deleted a file and changed the ids listed, and
\* left a file.
C2_Witness ==
    /\ Reconciled
    /\ DOMAIN storeDir # DOMAIN pre
    /\ LedgerIDs(storeDir) # LedgerIDs(pre)
    /\ ContentFiles(storeDir) # <<>>

\* C3 (as claimed): after check_integrity no content file remains whose id the
\* ID file, after its own duplicate removal, did not list when the run started.
C3_LedgerAuthoritative ==
    Reconciled =>
        \A id \in ContentFileIDs(storeDir) :
            Count(read_IDs(pre), id) = 1

\* C4: every object that was valid when check_integrity started is listed
\* after the run, its file there with the same name and content.
C4_ValidObjectsSurvive ==
    Reconciled => ValidObjectsKept(pre, storeDir)

\* C4 witness: a run that kept a valid object and deleted another file.
C4_Witness ==
    /\ Reconciled
    /\ \E id \in LedgerIDs(pre) : ValidObject(pre, id)
    /\ DOMAIN storeDir # DOMAIN pre

\* C5: an id carried by more than one content file when check_integrity
\* starts is on no content file and not listed after the run.
C5_DuplicatedIdRemoved ==
    Reconciled =>
        \A id \in ContentFileIDs(pre) :
            Cardinality(FilesOf(pre, id)) > 1 =>
                /\ FilesOf(storeDir, id) = {}
                /\ id \notin LedgerIDs(storeDir)

\* C5 witness: a run on a directory where a listed id is on two files, one of
\* them with a verified hash.
C5_Witness ==
    /\ Reconciled
    /\ \E id \in LedgerIDs(pre) :
          /\ Cardinality(FilesOf(pre, id)) > 1
          /\ \E n \in FilesOf(pre, id) : HashVerified(pre, n)

\* C6: a content file whose content does not hash to the hash in its name when
\* check_integrity starts is deleted by the run, and its id is neither listed
\* nor on a content file afterwards.
C6_HashMismatchRemoved ==
    Reconciled =>
        \A n \in DOMAIN ContentFiles(pre) :
            ~HashVerified(pre, n) =>
                /\ n \notin DOMAIN storeDir
                /\ int(Split(Stem(n), "_")[1]) \notin LedgerIDs(storeDir)
                /\ int(Split(Stem(n), "_")[1]) \notin ContentFileIDs(storeDir)

\* C6 witness: a run on a directory where the only file of a listed id has a
\* wrong hash.
C6_Witness ==
    /\ Reconciled
    /\ \E id \in LedgerIDs(pre) :
          /\ Count(read_IDs(pre), id) = 1
          /\ Cardinality(FilesOf(pre, id)) = 1
          /\ \E n \in FilesOf(pre, id) : ~HashVerified(pre, n)

\* The ids listed in d that no content file carries.
OrphanIDs(d) == LedgerIDs(d) \ ContentFileIDs(d)

\* C7: an id listed with no content file is not listed after check_integrity,
\* and the valid objects are kept; so too for the id add_storage_file leaves
\* listed when it is interrupted before the content file is created.
C7_OrphanEntryRemoved ==
    /\ Reconciled =>
          /\ \A id \in OrphanIDs(pre) : id \notin LedgerIDs(storeDir)
          /\ ValidObjectsKept(pre, storeDir)
    /\ (last.op = "add_storage_file" /\ last.status = "interrupted"
            /\ FilesOf(storeDir, last.id) = {}) =>
          /\ last.id \in OrphanIDs(storeDir)
          /\ \A o \in check_integrity(storeDir) :
                /\ last.id \notin LedgerIDs(o.dir)
                /\ ValidObjectsKept(pre, o.dir)

\* C7 witness: a run on a directory with an orphan id and a valid object.
C7_Witness ==
    /\ Reconciled
    /\ OrphanIDs(pre) # {}
    /\ \E id \in LedgerIDs(pre) : ValidObject(pre, id)

\* C8: list_IDs returns the list of the ID file exactly when the ids listed
\* are the ids of the content files, None otherwise, and changes nothing.
C8_ListIDsContract ==
    last.op = "list_IDs" =>
        /\ storeDir = pre
        /\ LedgerIDs(pre) = ContentFileIDs(pre) =>
              last.status = "ok" /\ last.ids = read_IDs(pre)
        /\ LedgerIDs(pre) # ContentFileIDs(pre) =>
              last.status = "None" /\ last.ids = <<>>

\* C8 witness: list_IDs returned None for a directory that lists an id.
C8_Witness ==
    /\ last.op = "list_IDs"
    /\ last.status = "None"
    /\ LedgerIDs(pre) # {}
    /\ ContentFileIDs(pre) # {}

\* No line of content holds a line break.
NoLineBreak(content) ==
    \A i \in 1..Len(content) : NL \notin Range(content[i])

\* C9: on a store whose listed ids are its files' ids and which does not list
\* id, add_storage_file(id, C) succeeds and leaves id listed once, on one
\* content file, named {id}_{calc_hash(C)}.dat, that holds the lines of C, each
\* ended by a newline (read back as C when no line holds a line break);
\* list_IDs then returns a list with id.
C9_AddStoresObject ==
    (/\ last.op = "add_storage_file"
     /\ last.status # "interrupted"
     /\ LedgerIDs(pre) = ContentFileIDs(pre)
     /\ last.id \notin LedgerIDs(pre)) =>
        LET name == str(last.id) \o <<"_">> \o calc_hash(last.content)
                        \o <<".", "d", "a", "t">>
        IN  /\ last.status = "ok"
            /\ Count(read_IDs(storeDir), last.id) = 1
            /\ FilesOf(storeDir, last.id) = {name}
            /\ storeDir[name] =
                  Concat([i \in 1..Len(last.content) |-> last.content[i] \o <<NL>>])
            /\ NoLineBreak(last.content) => TextLines(storeDir[name]) = last.content
            /\ list_IDs(storeDir).status = "ok"
            /\ last.id \in Range(list_IDs(storeDir).ids)

\* C9 witness: add_storage_file succeeded on a store that held another object.
C9_Witness ==
    /\ last.op = "add_storage_file"
    /\ last.status = "ok"
    /\ NoLineBreak(last.content)
    /\ LedgerIDs(pre) # {}
    /\ ContentFiles(storeDir) # ContentFiles(pre)

\* Every object of d is valid, and every content file is an object's.
AllObjectsValid(d) ==
    \A id \in LedgerIDs(d) \cup ContentFileIDs(d) : ValidObject(d, id)

\* C10 (as claimed): after add_storage_file(id, C) has succeeded on a store of
\* valid objects, C without line breaks, read_storage_data(id) returns C.
C10_ReadReturnsAdded ==
    (/\ last.op = "add_storage_file"
     /\ last.status = "ok"
     /\ NoLineBreak(last.content)
     /\ AllObjectsValid(pre)) =>
        \A o \in read_storage_data(storeDir, last.id) :
            o.status = "ok" /\ o.lines = last.content

\* C11: add_storage_file(id, C) on a store that lists id (list_IDs returns a
\* list, with id in it) raises ValueError and leaves the directory as it was:
\* the ID file, every content file's name and content, and no further file.
C11_DuplicateAddRejected ==
    (/\ last.op = "add_storage_file"
     /\ last.status # "interrupted"
     /\ list_IDs(pre).status = "ok"
     /\ last.id \in Range(list_IDs(pre).ids)) =>
        /\ last.status = "ValueError"
        /\ storeDir = pre

\* C11 witness: add_storage_file was refused for the id of a valid object,
\* with a content other than the one the object holds.
C11_Witness ==
    /\ last.op = "add_storage_file"
    /\ last.status = "ValueError"
    /\ ValidObject(pre, last.id)
    /\ \A n \in FilesOf(pre, last.id) : TextLines(pre[n]) # last.content

\* C12 (as claimed): on a store of valid objects a delete_storage_file(id) that
\* succeeds leaves id neither listed nor on a file, and every other object
\* listed and on its file as before.
C12_DeleteRemovesExactlyId ==
    (/\ last.op = "delete_storage_file"
     /\ last.status = "ok"
     /\ AllObjectsValid(pre)) =>
        /\ last.id \notin LedgerIDs(storeDir)
        /\ FilesOf(storeDir, last.id) = {}
        /\ \A other \in LedgerIDs(pre) \ {last.id} :
               /\ Count(read_IDs(storeDir), other) = 1
               /\ \A n \in FilesOf(pre, other) :
                      n \in DOMAIN storeDir /\ storeDir[n] = pre[n]

\* C13: delete_storage_file(id) on a store that does not list id (list_IDs
\* returns a list, without id) raises ValueError and leaves the ID file and
\* every content file as they were.
C13_DeleteUnknownRejected ==
    (/\ last.op = "delete_storage_file"
     /\ list_IDs(pre).status = "ok"
     /\ last.id \notin Range(list_IDs(pre).ids)) =>
        /\ last.status = "ValueError"
        /\ storeDir = pre

\* C13 witness: delete_storage_file was refused for an id the store does not
\* hold, on a store that holds another object.
C13_Witness ==
    /\ last.op = "delete_storage_file"
    /\ last.status = "ValueError"
    /\ last.id \notin LedgerIDs(pre) \cup ContentFileIDs(pre)
    /\ \E other \in LedgerIDs(pre) : ValidObject(pre, other)

\* C16 (as claimed): read_storage_data(id) fails, returning no content, when
\* no content file of the directory carries id, whatever the ID file lists.
C16_ReadMissingFails ==
    (/\ last.op = "read_storage_data"
     /\ FilesOf(pre, last.id) = {}) =>
        last.status # "ok"

\* C17 (as claimed): when add_storage_file, delete_storage_file,
\* write_storage_data or append_storage_data ends in an exception, the ID file
\* and every content file are as they were before the call.
C17_FailedCallChangesNothing ==
    (/\ last.op \in {"add_storage_file", "delete_storage_file",
                     "write_storage_data", "append_storage_data"}
     /\ last.status \notin {"ok", "interrupted"}) =>
        storeDir = pre

\* The content files of d whose names start with the decimal digits of id.
NamesStartingWith(d, id) ==
    {n \in DOMAIN d \ {IDFileName} : StartsWith(n, str(id))}

\* Object id has one content file in d, and no other content file's name
\* starts with the decimal digits of id.
SoleFile(d, id) ==
    /\ Cardinality(FilesOf(d, id)) = 1
    /\ NamesStartingWith(d, id) = FilesOf(d, id)

\* The name {id}_{calc_hash(content)}.dat.
NameOf(id, content) ==
    str(id) \o <<"_">> \o calc_hash(content) \o <<".", "d", "a", "t">>

\* The text of a file that holds the lines of content: each ended by a newline.
LinesText(content) ==
    Concat([i \in 1..Len(content) |-> content[i] \o <<NL>>])

\* C14 (as claimed): when one content file carries id and no other content
\* file's name starts with the digits of id, write_storage_data(id, C2) leaves
\* one content file for id, named {id}_{calc_hash(C2)}.dat, whose content read
\* back is exactly C2, the old name gone unless it is the new one, and
\* read_storage_data(id) returns C2.
C14_AsClaimed ==
    (/\ last.op = "write_storage_data"
     /\ SoleFile(pre, last.id)) =>
        LET name == NameOf(last.id, last.content)
        IN  /\ last.status = "ok"
            /\ FilesOf(storeDir, last.id) = {name}
            /\ TextLines(storeDir[name]) = last.content
            /\ \A n \in FilesOf(pre, last.id) : n # name => n \notin DOMAIN storeDir
            /\ \A o \in read_storage_data(storeDir, last.id) :
                   o.status = "ok" /\ o.lines = last.content

\* C14 (amended): under the same condition write_storage_data(id, C2) leaves
\* one content file for id, named {id}_{calc_hash(C2)}.dat, that holds each
\* line of C2 ended by a newline, the old name gone unless it is the new one;
\* when no line of C2 holds a line break the content read back is exactly C2
\* and read_storage_data(id) returns C2.
C14_WriteReplacesContent ==
    (/\ last.op = "write_storage_data"
     /\ SoleFile(pre, last.id)) =>
        LET name == NameOf(last.id, last.content)
        IN  /\ last.status = "ok"
            /\ FilesOf(storeDir, last.id) = {name}
            /\ storeDir[name] = LinesText(last.content)
            /\ \A n \in FilesOf(pre, last.id) : n # name => n \notin DOMAIN storeDir
            /\ NoLineBreak(last.content) =>
                   /\ TextLines(storeDir[name]) = last.content
                   /\ \A o \in read_storage_data(storeDir, last.id) :
                          o.status = "ok" /\ o.lines = last.content

\* C14 witness: write_storage_data gave a valid object, in a directory with
\* another file, a new content without line breaks and so a new name.
C14_Witness ==
    /\ last.op = "write_storage_data"
    /\ last.status = "ok"
    /\ SoleFile(pre, last.id)
    /\ ValidObject(pre, last.id)
    /\ NoLineBreak(last.content)
    /\ Cardinality(DOMAIN ContentFiles(pre)) > 1
    /\ NameOf(last.id, last.content) \notin DOMAIN pre

\* The text is empty or ends with a newline, as every text the store writes.
NewlineEnded(text) == text = <<>> \/ text[Len(text)] = NL

\* C15 (as claimed): when one content file carries id, with content C1, and no
\* other content file's name starts with the digits of id,
\* append_storage_data(id, C2) leaves one content file for id, named by the
\* hash of C1 followed by C2, whose content read back is C1 followed by C2,
\* and read_storage_data(id) returns C1 followed by C2.
C15_AsClaimed ==
    (/\ last.op = "append_storage_data"
     /\ SoleFile(pre, last.id)) =>
        \A f \in FilesOf(pre, last.id) :
            LET full == TextLines(pre[f]) \o last.content
                name == NameOf(last.id, full)
            IN  /\ last.status = "ok"
                /\ FilesOf(storeDir, last.id) = {name}
                /\ TextLines(storeDir[name]) = full
                /\ \A o \in read_storage_data(storeDir, last.id) :
                       o.status = "ok" /\ o.lines = full

\* C15 (amended): under the same condition append_storage_data(id, C2) leaves
\* one content file for id, that holds the old text followed by each line of
\* C2 ended by a newline, named by the hash of the lines read back from it;
\* when the old text is empty or ends with a newline and no line of C2 holds a
\* line break, these lines are C1 followed by C2 and read_storage_data(id)
\* returns them.
C15_AppendExtendsContent ==
    (/\ last.op = "append_storage_data"
     /\ SoleFile(pre, last.id)) =>
        \A f \in FilesOf(pre, last.id) :
            LET text == pre[f] \o LinesText(last.content)
                name == NameOf(last.id, TextLines(text))
                full == TextLines(pre[f]) \o last.content
            IN  /\ last.status = "ok"
                /\ FilesOf(storeDir, last.id) = {name}
                /\ storeDir[name] = text
                /\ (NewlineEnded(pre[f]) /\ NoLineBreak(last.content)) =>
                       /\ TextLines(storeDir[name]) = full
                       /\ name = NameOf(last.id, full)
                       /\ \A o \in read_storage_data(storeDir, last.id) :
                              o.status = "ok" /\ o.lines = full

\* C15 witness: append_storage_data added lines without line breaks to a valid
\* object that held a line, in a directory with another file.
C15_Witness ==
    /\ last.op = "append_storage_data"
    /\ last.status = "ok"
    /\ SoleFile(pre, last.id)
    /\ ValidObject(pre, last.id)
    /\ NoLineBreak(last.content)
    /\ \A f \in FilesOf(pre, last.id) : TextLines(pre[f]) # <<>>
    /\ Cardinality(DOMAIN ContentFiles(pre)) > 1

\* C18: for an id >= 0 and a hash without underscore, decode_filename of the
\* file created at the path of encode_filename(id, hash) returns that id, that
\* hash and that path, and the path's name is {id}_{hash}.dat.
C18_CodecRoundTrip ==
    (/\ last.op = "decode_filename"
     /\ "_" \notin Range(last.content[1])) =>
        /\ last.status = "ok"
        /\ last.ids = <<last.id>>
        /\ last.lines[2] = last.content[1]
        /\ DOMAIN ContentFiles(storeDir) = {last.lines[1]}
        /\ last.lines[1] =
              str(last.id) \o <<"_">> \o last.content[1] \o <<".", "d", "a", "t">>

\* C18 witness: an id of two digits and a hash with a dot were decoded.
C18_Witness ==
    /\ last.op = "decode_filename"
    /\ last.status = "ok"
    /\ last.id >= 10
    /\ Len(last.content[1]) > 1
    /\ "." \in Range(last.content[1])
    /\ "_" \notin Range(last.content[1])

\* C19: add_ID(id) on an ID file that lists id raises KeyError and leaves the
\* file as it was; otherwise the file afterwards lists the ids it listed,
\* followed by id, once.
C19_AddIDContract ==
    last.op = "add_ID" =>
        IF last.id \in LedgerIDs(pre)
        THEN last.status = "KeyError" /\ storeDir = pre
        ELSE /\ last.status = "ok"
             /\ read_IDs(storeDir) = Append(read_IDs(pre), last.id)
             /\ Count(read_IDs(storeDir), last.id) = 1

\* C19 witness: add_ID added an id to an ID file that listed another one.
C19_Witness ==
    /\ last.op = "add_ID"
    /\ last.status = "ok"
    /\ read_IDs(pre) # <<>>
    /\ read_IDs(storeDir) # read_IDs(pre)

\* C20 (as claimed): remove_ID(id) on an ID file that does not list id raises
\* KeyError and leaves the file as it was; otherwise, whatever the file held,
\* the file afterwards does not list id and lists every other id it listed.
C20_RemoveIDContract ==
    last.op = "remove_ID" =>
        IF last.id \notin LedgerIDs(pre)
        THEN last.status = "KeyError" /\ storeDir = pre
        ELSE /\ last.status = "ok"
             /\ last.id \notin LedgerIDs(storeDir)
             /\ LedgerIDs(pre) \ {last.id} \subseteq LedgerIDs(storeDir)

\* C21: IDFile.check_integrity, whatever ids the ID file lists and how often,
\* leaves an ID file that lists exactly the ids that were listed exactly once,
\* each once; an id listed two or more times is not listed any more.
C21_LedgerCheckKeepsSingles ==
    last.op = "IDFile.check_integrity" =>
        /\ last.status = "ok"
        /\ LedgerIDs(storeDir) = {id \in LedgerIDs(pre) : Count(read_IDs(pre), id) = 1}
        /\ \A id \in LedgerIDs(storeDir) : Count(read_IDs(storeDir), id) = 1
        /\ \A id \in LedgerIDs(pre) :
               Count(read_IDs(pre), id) > 1 => id \notin LedgerIDs(storeDir)

\* C21 witness: the ID file listed one id twice and another once; the run kept
\* the second.
C21_Witness ==
    /\ last.op = "IDFile.check_integrity"
    /\ \E id \in LedgerIDs(pre) : Count(read_IDs(pre), id) > 1
    /\ LedgerIDs(storeDir) # {}

\* C22: from the empty ID file, after any calls of add_ID, remove_ID,
\* purge_IDs and IDFile.check_integrity, those that raise included, the ID file
\* lists no id more than once.
C22_LedgerNeverListsTwice ==
    \A id \in LedgerIDS : Count(read_IDs(storeDir), id) <= 1

\* C22 witness: add_ID raised KeyError on an ID file that lists several ids.
C22_Witness ==
    /\ last.op = "add_ID"
    /\ last.status = "KeyError"
    /\ Len(read_IDs(storeDir)) > 1

\* C23: SimpleDataStore(path) on a path where nothing exists leaves a
\* directory that holds the empty file _ID.dat and nothing else; on a path
\* that holds a store it leaves the ids of the ID file and every content
\* file, name and content, as they were.
C23_OpenIdempotent ==
    last.op = "__init__" =>
        IF pre = NoDirectory
        THEN storeDir = (IDFileName :> <<>>)
        ELSE /\ read_IDs(storeDir) = read_IDs(pre)
             /\ ContentFiles(storeDir) = ContentFiles(pre)

\* C23 witness: a store that lists ids and holds content files was opened
\* again.
C23_Witness ==
    /\ last.op = "__init__"
    /\ pre # NoDirectory
    /\ read_IDs(pre) # <<>>
    /\ DOMAIN ContentFiles(pre) # {}

\* C24: at each point between the writes of add_storage_file the ID file lists
\* id, so the file is never there without the entry, and on a store whose
\* listed ids were its files' ids the files' ids stay among the listed ids;
\* at the point between the writes of delete_storage_file the ID file has lost
\* an entry of id and every content file is still as it was.
C24_LedgerFirst ==
    /\ (last.op = "add_storage_file" /\ last.status \in {"interrupted", "ok"}) =>
           /\ last.id \in LedgerIDs(storeDir)
           /\ FilesOf(storeDir, last.id) # FilesOf(pre, last.id) =>
                  last.id \in LedgerIDs(storeDir)
           /\ LedgerIDs(pre) = ContentFileIDs(pre) =>
                  ContentFileIDs(storeDir) \subseteq LedgerIDs(storeDir)
    /\ (last.op = "delete_storage_file" /\ last.status = "interrupted") =>
           /\ Count(read_IDs(storeDir), last.id) < Count(read_IDs(pre), last.id)
           /\ ContentFiles(storeDir) = ContentFiles(pre)

\* C24 witness: add_storage_file was interrupted with the id listed and its
\* file not yet created, on a store that held an object.
C24_Witness ==
    /\ last.op = "add_storage_file"
    /\ last.status = "interrupted"
    /\ last.id \in LedgerIDs(storeDir)
    /\ FilesOf(storeDir, last.id) = {}
    /\ LedgerIDs(pre) # {}
    /\ LedgerIDs(pre) = ContentFileIDs(pre)

\* C25: check_integrity returns without an exception, in whatever order the
\* directory is scanned, on a directory that lists ids twice, holds ids on
\* several files, files of ids not listed, listed ids without file and files
\* whose content does not match their hash, in any combination; the add_ID
\* calls of the final rebuild do not raise KeyError.
C25_CheckIntegrityNeverRaises ==
    Reconciled =>
        /\ last.status = "ok"
        /\ \A o \in check_integrity(pre) : o.status = "ok"

\* C25 witness: a run on a directory with all five conditions at once.
C25_Witness ==
    /\ Reconciled
    /\ \E id \in LedgerIDs(pre) : Count(read_IDs(pre), id) > 1
    /\ \E id \in ContentFileIDs(pre) : Cardinality(FilesOf(pre, id)) > 1
    /\ ContentFileIDs(pre) \ LedgerIDs(pre) # {}
    /\ LedgerIDs(pre) \ ContentFileIDs(pre) # {}
    /\ \E n \in DOMAIN ContentFiles(pre) : ~HashVerified(pre, n)

\* C26: check_integrity changes content files by deleting them only: every
\* content file after a run was there before it, under the same name and with
\* the same content.
C26_CheckIntegrityOnlyDeletes ==
    Reconciled =>
        \A n \in DOMAIN ContentFiles(storeDir) :
            n \in DOMAIN ContentFiles(pre) /\ storeDir[n] = pre[n]

\* C26 witness: a run deleted a content file and left another.
C26_Witness ==
    /\ Reconciled
    /\ DOMAIN ContentFiles(storeDir) # {}
    /\ DOMAIN ContentFiles(storeDir) # DOMAIN ContentFiles(pre)

\* C27 (as claimed): write_storage_data(id, C) and append_storage_data(id, C)
\* on a directory with a file of id leave the ID file as it was and every content file whose decoded id is not
\* id under its name with its content; the ids carried by content files are
\* the same before and after.
C27_UpdateTouchesOwnFileOnly ==
    (/\ last.op \in {"write_storage_data", "append_storage_data"}
     /\ FilesOf(pre, last.id) # {}) =>
        /\ storeDir[IDFileName] = pre[IDFileName]
        /\ \A n \in DOMAIN ContentFiles(pre) :
               n \notin FilesOf(pre, last.id) =>
                   n \in DOMAIN storeDir /\ storeDir[n] = pre[n]
        /\ ContentFileIDs(storeDir) = ContentFileIDs(pre)

\* C28 (as claimed): the id, path and hash read from the descriptor of one
\* decode_filename call are the same after a decode_filename call on another
\* file.
C28_DescriptorIsFresh ==
    last.op = "decode_filename again" =>
        /\ last.ids[2] = last.ids[1]
        /\ last.lines[3] = last.lines[1]
        /\ last.lines[4] = last.lines[2]

\* C29 (as claimed): from the fresh store, after any completed calls of
\* add_storage_file, delete_storage_file, write_storage_data,
\* append_storage_data and check_integrity, those that raise included, the ids
\* listed are the files' ids, each id is listed once and on one file, every
\* file's hash is the hash of its content, list_IDs returns a list and
\* check_integrity would change nothing.
C29_APIKeepsStoreValid ==
    /\ LedgerIDs(storeDir) = ContentFileIDs(storeDir)
    /\ AllObjectsValid(storeDir)
    /\ list_IDs(storeDir).status = "ok"
    /\ \A o \in check_integrity(storeDir) :
           /\ LedgerIDs(o.dir) = LedgerIDs(storeDir)
           /\ ContentFiles(o.dir) = ContentFiles(storeDir)

\* C30 (as claimed): after delete_storage_file(id) has returned, a
\* check_integrity run leaves id out of the ID file and out of what list_IDs
\* returns.
C30_NoResurrection ==
    (/\ last.op = "delete_storage_file"
     /\ last.status = "ok") =>
        \A o \in check_integrity(storeDir) :
            /\ last.id \notin LedgerIDs(o.dir)
            /\ last.id \notin Range(list_IDs(o.dir).ids)

\* C31 (as claimed): when check_integrity was interrupted between two of its
\* writes and has then been run to completion, every object that was valid
\* before the interrupted run is still listed in the ID file and still has
\* its content file, with the content it had.
C31_CrashSafeReconcile ==
    (last.op = "check_integrity" /\ last.status = "reconciled") =>
        ValidObjectsKept(pre, storeDir)

\* The text object id holds in d, for an id carried by one file.
TextOf(d, id) == d[CHOOSE n \in FilesOf(d, id) : TRUE]

\* The text the interrupted update recorded in `last` was to leave in the
\* object's file.
UpdatedText ==
    IF last.op = "write_storage_data" THEN WrittenText(last.content)
    ELSE TextOf(pre, last.id) \o WrittenText(last.content)

\* C32 (as claimed): when write_storage_data or append_storage_data on a valid
\* object was interrupted between the change of the file's content and the
\* rename, and check_integrity has then been run, the object is still listed,
\* still has one file, and the file holds the old or the new content.
C32_UpdateAtomicAcrossCrash ==
    (/\ last.op \in {"write_storage_data", "append_storage_data"}
     /\ last.status = "reconciled"
     /\ ValidObject(pre, last.id)) =>
        /\ ValidObject(storeDir, last.id)
        /\ TextOf(storeDir, last.id) \in {TextOf(pre, last.id), UpdatedText}

\* The set of ids the ID file lists is not the set of ids the files carry:
\* list_IDs returns None.
IdSetsDisagree(d) == LedgerIDs(d) # ContentFileIDs(d)

\* add_storage_file or delete_storage_file, called on a directory whose id
\* sets disagree, ends in an exception and leaves the directory as it was.
RejectedWhileDisagreeing ==
    (/\ last.op \in {"add_storage_file", "delete_storage_file"}
     /\ last.status # "interrupted"
     /\ IdSetsDisagree(pre)) =>
        /\ last.status # "ok"
        /\ storeDir = pre

\* A call of the store that takes the directory from disagreeing id sets to
\* agreeing ones is a call of check_integrity.
OnlyCheckIntegrityRestores ==
    (/\ IdSetsDisagree(storeDir)
     /\ ~IdSetsDisagree(storeDir')
     /\ last' # Idle) =>
        last'.op = "check_integrity"

\* C33 (as claimed): while the ID file's id set and the files' id set
\* disagree, add_storage_file and delete_storage_file fail for every id and
\* change neither the ID file nor any file, and the id sets come to agree
\* again, so that the two can succeed, only through check_integrity.
C33_InconsistentStoreRejects ==
    /\ []RejectedWhileDisagreeing
    /\ [][OnlyCheckIntegrityRestores]_vars

=============================================================================
